---- MODULE Spec2Model ----
(***************************************************************************)
(* KitForge API composition layer: the ServiceRegistry (lazy, cached       *)
(* service construction) and the HealthService (startup probes and the     *)
(* aggregate health status), modelled from                                 *)
(* apps/api/src/health/health.service.ts.                                  *)
(*                                                                         *)
(* JavaScript values are records tagged by their type, so that reference   *)
(* identity (Obj(n) = Obj(m) iff n = m) and `undefined` are explicit.      *)
(* Strings that the code inspects or builds (error messages) are           *)
(* sequences of text fragments; String.includes is a contiguous            *)
(* sub-sequence test on them.                                              *)
(***************************************************************************)
EXTENDS Integers, Sequences, FiniteSets, TLC

VARIABLES
    factories,      \* ServiceRegistry.factories : Map<key, factory>
    instances,      \* ServiceRegistry.instances : Map<key, instance>
    nextRef,        \* identity of the next object a constructor allocates
    ret,            \* what the last registry call did and returned
    log,            \* per key: history since the last register/reset/clear
    cpc,            \* per concurrent caller: idle, calling, returned or threw
    arg,            \* per concurrent caller: the key of its get call
    got,            \* per concurrent caller: what its get call returned or threw
    first,          \* per concurrent caller: called while its key was registered and not constructed
    built,          \* per key: factory calls that returned since the last register/reset/clear
    dbStatus,       \* HealthService.dbStatus
    dbMessage,      \* HealthService.dbMessage
    dbConnectedAt,  \* HealthService.dbConnectedAt
    authStatus,     \* HealthService.authStatus
    authMessage,    \* HealthService.authMessage
    authValidatedAt,\* HealthService.authValidatedAt
    clock,          \* the wall clock new Date() reads
    pc,             \* per runStartupChecks() invocation: where it stands
    store,          \* per invocation: the database record its store probe wrote
    lastDbWriter,   \* the invocation whose store probe wrote the database record last
    last,           \* the last probe that settled: invocation, probe, outcome
    hist,           \* per key: factory calls since the last reset and since the last invalidation
    reply,          \* what the step just taken returned, if it was a getHealth() call or a GET /health
    registered,     \* service-registry.ts: the auto-register flag
    config,         \* the configuration object the email factory reads
    sret,           \* what the last call on the services namespace did and returned
    slog,           \* history of the services namespace, to state the claims
    boot            \* index.ts start(): where it stands

regVars == <<factories, instances, nextRef>>

seqVars == <<ret, log>>

raceVars == <<cpc, arg, got, first, built>>

healthFields == <<dbStatus, dbMessage, dbConnectedAt, authStatus, authMessage, authValidatedAt>>

healthVars == <<healthFields, clock, pc, store, lastDbWriter, last>>

svcVars == <<registered, config, sret, slog>>

\* The variables only the specifications further down change.
laterVars == <<hist, reply, svcVars, boot>>

vars == <<regVars, seqVars, raceVars, healthVars, laterVars>>

(***************************************************************************)
(* Bounds                                                                  *)
(***************************************************************************)
\* Number of distinct objects the factories may allocate in one behaviour.
MaxRefs == 2

\* Number of tasks that call get concurrently.
NCallers == 2

\* Number of runStartupChecks() invocations, which may overlap.
NRuns == 2

\* Number of times the wall clock advances.
MaxClock == 1

(***************************************************************************)
(* JavaScript values                                                       *)
(***************************************************************************)
Undefined == [t |-> "undefined"]

Obj(n) == [t |-> "object", id |-> n]

Bool(b) == [t |-> "boolean", v |-> b]

Arr(s) == [t |-> "array", items |-> s]

Fn(name) == [t |-> "function", name |-> name]

Err(message) == [t |-> "Error", message |-> message]

\* No value at all: the call did not take place.
NoValue == [t |-> "none"]

\* s.includes(pat): pat occurs in s as a contiguous run of fragments.
Includes(s, pat) ==
    \E i \in 0..(Len(s) - Len(pat)) :
        \A j \in 1..Len(pat) : s[i + j] = pat[j]

(***************************************************************************)
(* Map<K, V>: insertion-ordered entries, one per key.                      *)
(***************************************************************************)
EmptyMap == <<>>

MapHas(m, k) == \E i \in 1..Len(m) : m[i].key = k

MapGet(m, k) ==
    IF MapHas(m, k)
    THEN m[CHOOSE i \in 1..Len(m) : m[i].key = k].val
    ELSE Undefined

MapSet(m, k, v) ==
    IF MapHas(m, k)
    THEN [i \in 1..Len(m) |-> IF m[i].key = k THEN [key |-> k, val |-> v] ELSE m[i]]
    ELSE Append(m, [key |-> k, val |-> v])

MapDelete(m, k) ==
    LET keep(e) == e.key # k IN SelectSeq(m, keep)

MapKeys(m) == [i \in 1..Len(m) |-> m[i].key]

(***************************************************************************)
(* Service keys and factories                                              *)
(***************************************************************************)
\* Services has the one key 'email'; the registry tests use 'foo'.
Keys == {"email", "foo"}

\* The object a test double or override holds before any factory runs.
Double == Obj(0)

\* fA constructs a new object on every call (() => ({ value: 'test' }),
\* () => new EmailService(...) with a valid configuration).
\* fX is a constructing factory whose constructor may throw
\* (EmailService.createProvider without an API key).
\* fD1 and fD2 are two closures () => value over the same value, as two
\* configureServices({ email: value }) calls create them.
FreshFactories == {Fn("fA"), Fn("fX")}

ThrowingFactories == {Fn("fX")}

ConstFactories == {Fn("fD1"), Fn("fD2")}

Factories == FreshFactories \cup ConstFactories

Outcomes == {"returns", "throws"}

ProviderError == Err(<<"Resend API key is required for resend provider">>)

\* config.email as setTestConfig and the environment set it: the console
\* provider, the resend provider with its key, and the resend provider with
\* no key (setTestConfig does not validate what it assigns).
ConsoleConfig ==
    [type |-> "console", api_key |-> Undefined, from |-> "test@example.com"]

ResendConfig ==
    [type |-> "resend", api_key |-> [t |-> "string", v |-> <<"re_key">>],
     from |-> "noreply@example.com"]

ResendNoKeyConfig ==
    [type |-> "resend", api_key |-> Undefined, from |-> "noreply@example.com"]

Configs == {ConsoleConfig, ResendConfig, ResendNoKeyConfig}

\* The closure registerServices() registers for 'email'.
EmailFactory == Fn("email")

\* The closure () => value configureServices registers for an override.
Override(value) == [t |-> "function", name |-> "override", value |-> value]

\* A second test double.
OtherDouble == Obj(0 - 1)

Doubles == {Double, OtherDouble}

newEmailService_DefaultSender(cfg, nr) ==
    IF cfg.type = "console"
    THEN [threw |-> FALSE, nextRef |-> nr + 1,
          value |-> [t |-> "object", id |-> nr, provider |-> <<"console">>,
                     defaultFrom |-> "noreply@localhost.com"]]
    ELSE IF cfg.type = "resend"
    THEN IF cfg.api_key = Undefined
         THEN [threw |-> TRUE, value |-> ProviderError, nextRef |-> nr]
         ELSE [threw |-> FALSE, nextRef |-> nr + 1,
               value |-> [t |-> "object", id |-> nr,
                          provider |-> <<"resend", cfg.api_key>>,
                          defaultFrom |-> "noreply@localhost.com"]]
    ELSE [threw |-> TRUE, nextRef |-> nr,
          value |-> Err(<<"Unknown email provider type: ", cfg.type>>)]

\* new EmailService({providerType: config.email.provider.type, resendApiKey,
\* defaultFrom: config.email.from}) with config.email = cfg at the call.
newEmailService(cfg, nr) ==
    IF cfg.type = "console"
    THEN [threw |-> FALSE, nextRef |-> nr + 1,
          value |-> [t |-> "object", id |-> nr, provider |-> <<"console">>,
                     defaultFrom |-> cfg.from]]
    ELSE IF cfg.type = "resend"
    THEN IF cfg.api_key = Undefined
         THEN [threw |-> TRUE, value |-> ProviderError, nextRef |-> nr]
         ELSE [threw |-> FALSE, nextRef |-> nr + 1,
               value |-> [t |-> "object", id |-> nr,
                          provider |-> <<"resend", cfg.api_key>>,
                          defaultFrom |-> cfg.from]]
    ELSE [threw |-> TRUE, nextRef |-> nr,
          value |-> Err(<<"Unknown email provider type: ", cfg.type>>)]

\* factory(): the value returned or thrown, and the allocator afterwards.
\* `outcome` is what the call finds in its environment: for the email
\* factory the configuration it reads, for the factories of the registry
\* tests whether the constructor throws.
Invoke(factory, nr, outcome) ==
    IF factory = EmailFactory
    THEN newEmailService(outcome, nr)
    ELSE IF factory.name = "override"
    THEN [threw |-> FALSE, value |-> factory.value, nextRef |-> nr]
    ELSE IF factory \in ThrowingFactories /\ outcome = "throws"
    THEN [threw |-> TRUE, value |-> ProviderError, nextRef |-> nr]
    ELSE IF factory \in ConstFactories
    THEN [threw |-> FALSE, value |-> Double, nextRef |-> nr]
    ELSE [threw |-> FALSE, value |-> Obj(nr), nextRef |-> nr + 1]

(***************************************************************************)
(* ServiceRegistry                                                         *)
(***************************************************************************)
NotRegisteredError(key) ==
    Err(<<"Service \"", key, "\" is not registered. ",
          "Did you forget to register it in registerServices()?">>)

register_Eager(fs, is, key, factory) ==
    [factories |-> MapSet(fs, key, factory),
     instances |-> MapSet(is, key, Invoke(factory, 0, "returns").value)]

register_KeepInstance(fs, is, key, factory) ==
    [factories |-> MapSet(fs, key, factory), instances |-> is]

\* register(key, factory)
register(fs, is, key, factory) ==
    [factories |-> MapSet(fs, key, factory),
     instances |-> MapDelete(is, key)]

get_CachesFailure(fs, is, nr, key, outcome) ==
    LET factory == MapGet(fs, key) IN
    IF MapHas(is, key)
    THEN [threw |-> FALSE, value |-> MapGet(is, key), invoked |-> <<>>,
          instances |-> is, nextRef |-> nr]
    ELSE IF factory = Undefined
    THEN [threw |-> TRUE, value |-> NotRegisteredError(key), invoked |-> <<>>,
          instances |-> is, nextRef |-> nr]
    ELSE LET r == Invoke(factory, nr, outcome) IN
         IF r.threw
         THEN [threw |-> TRUE, value |-> r.value, invoked |-> <<factory>>,
               instances |-> MapSet(is, key, Undefined), nextRef |-> nr]
         ELSE [threw |-> FALSE, value |-> r.value, invoked |-> <<factory>>,
               instances |-> MapSet(is, key, r.value), nextRef |-> r.nextRef]

get_NoCache(fs, is, nr, key, outcome) ==
    LET factory == MapGet(fs, key) IN
    IF MapHas(is, key)
    THEN [threw |-> FALSE, value |-> MapGet(is, key), invoked |-> <<>>,
          instances |-> is, nextRef |-> nr]
    ELSE IF factory = Undefined
    THEN [threw |-> TRUE, value |-> NotRegisteredError(key), invoked |-> <<>>,
          instances |-> is, nextRef |-> nr]
    ELSE LET r == Invoke(factory, nr, outcome) IN
         [threw |-> r.threw, value |-> r.value, invoked |-> <<factory>>,
          instances |-> is, nextRef |-> r.nextRef]

get_AlwaysConstruct(fs, is, nr, key, outcome) ==
    LET factory == MapGet(fs, key) IN
    IF factory = Undefined
    THEN [threw |-> TRUE, value |-> NotRegisteredError(key), invoked |-> <<>>,
          instances |-> is, nextRef |-> nr]
    ELSE LET r == Invoke(factory, nr, outcome) IN
         IF r.threw
         THEN [threw |-> TRUE, value |-> r.value, invoked |-> <<factory>>,
               instances |-> is, nextRef |-> nr]
         ELSE [threw |-> FALSE, value |-> r.value, invoked |-> <<factory>>,
               instances |-> MapSet(is, key, r.value), nextRef |-> r.nextRef]

get_Placeholder(fs, is, nr, key, outcome) ==
    LET factory == MapGet(fs, key) IN
    IF MapHas(is, key)
    THEN [threw |-> FALSE, value |-> MapGet(is, key), invoked |-> <<>>,
          instances |-> is, nextRef |-> nr]
    ELSE IF factory = Undefined
    THEN [threw |-> FALSE, value |-> Undefined, invoked |-> <<>>,
          instances |-> MapSet(is, key, Undefined), nextRef |-> nr]
    ELSE LET r == Invoke(factory, nr, outcome) IN
         IF r.threw
         THEN [threw |-> TRUE, value |-> r.value, invoked |-> <<factory>>,
               instances |-> is, nextRef |-> nr]
         ELSE [threw |-> FALSE, value |-> r.value, invoked |-> <<factory>>,
               instances |-> MapSet(is, key, r.value), nextRef |-> r.nextRef]

\* get(key): returns or throws `value`; `invoked` lists the factory calls
\* made; `instances` and `nextRef` are the cache and allocator afterwards.
get(fs, is, nr, key, outcome) ==
    LET factory == MapGet(fs, key) IN
    IF MapHas(is, key)
    THEN [threw |-> FALSE, value |-> MapGet(is, key), invoked |-> <<>>,
          instances |-> is, nextRef |-> nr]
    ELSE IF factory = Undefined
    THEN [threw |-> TRUE, value |-> NotRegisteredError(key), invoked |-> <<>>,
          instances |-> is, nextRef |-> nr]
    ELSE LET r == Invoke(factory, nr, outcome) IN
         IF r.threw
         THEN [threw |-> TRUE, value |-> r.value, invoked |-> <<factory>>,
               instances |-> is, nextRef |-> nr]
         ELSE [threw |-> FALSE, value |-> r.value, invoked |-> <<factory>>,
               instances |-> MapSet(is, key, r.value), nextRef |-> r.nextRef]

\* has(key)
has(fs, is, key) == MapHas(fs, key)

\* getRegistered()
getRegistered(fs) == MapKeys(fs)

reset_AlsoFactories(fs, is) == [factories |-> EmptyMap, instances |-> EmptyMap]

\* reset()
reset(fs, is) == [factories |-> fs, instances |-> EmptyMap]

clear_KeepInstances(fs, is) == [factories |-> EmptyMap, instances |-> is]

\* clear()
clear(fs, is) == [factories |-> EmptyMap, instances |-> EmptyMap]

(***************************************************************************)
(* History kept beside the registry to state the claims                    *)
(*                                                                         *)
(* log[k].since      the reference the last get(k) returned, NoValue once  *)
(*                   a register(k), reset() or clear() has come between    *)
(* log[k].by         the last of register(k)/reset()/clear() after which   *)
(*                   no get(k) has returned yet ("none" otherwise)         *)
(* log[k].dropped    the cached instance that operation discarded          *)
(* log[k].oldFactory the factory registered for k before that operation    *)
(***************************************************************************)
FreshLog == [since |-> NoValue, by |-> "none", dropped |-> NoValue, oldFactory |-> Undefined]

Invalidated(fs, is, k, op) ==
    [since |-> NoValue,
     by |-> op,
     dropped |-> IF MapHas(is, k) THEN MapGet(is, k) ELSE NoValue,
     oldFactory |-> MapGet(fs, k)]

Snapshot == [factories |-> factories, instances |-> instances, nextRef |-> nextRef]

Returned(op, key, threw, value, invoked) ==
    [op |-> op, key |-> key, threw |-> threw, value |-> value, invoked |-> invoked,
     before |-> Snapshot, log |-> IF key \in Keys THEN log[key] ELSE FreshLog]

(***************************************************************************)
(* HealthService                                                           *)
(***************************************************************************)
Str(fragments) == [t |-> "string", v |-> fragments]

\* new Date().toISOString() when the clock reads n.
Time(n) == [t |-> "string", iso |-> n]

\* error instanceof Error
IsError(e) == e.t = "Error"

FatalSignature == <<"Failed to decrypt private key">>

SecretMismatchMessage ==
    <<"BETTER_AUTH_SECRET mismatch - cannot decrypt JWKS. ",
      "Clear database JWKS table or use correct secret.">>

StartupBlocked == Err(<<"Critical auth configuration error - startup blocked">>)

\* A probe resolves, or rejects with (throws) a value.
Resolved == [threw |-> FALSE, value |-> Undefined]

Rejected(v) == [threw |-> TRUE, value |-> v]

\* What createDatabase(url) / db.execute('SELECT 1') may throw: an Error,
\* an Error whose text happens to hold the JWKS signature, a non-Error.
DbOutcomes ==
    {Resolved,
     Rejected(Err(<<"connect ECONNREFUSED 127.0.0.1:5432">>)),
     Rejected(Err(FatalSignature)),
     Rejected(Str(<<"timeout">>))}

\* What auth.api.generateOpenAPISchema() may throw: the JWKS decryption
\* error, bare or inside a longer message, another Error, and a non-Error
\* value carrying the same text.
AuthOutcomes ==
    {Resolved,
     Rejected(Err(FatalSignature)),
     Rejected(Err(<<"BetterAuthError: ", "Failed to decrypt private key", " (kid 1)">>)),
     Rejected(Err(<<"fetch failed">>)),
     Rejected(Str(FatalSignature))}

checkDatabase_ResetsOnFailure(outcome, now) ==
    IF ~outcome.threw
    THEN [status |-> "healthy", message |-> <<"Connected">>, at |-> Time(now),
          threw |-> FALSE]
    ELSE [status |-> "unhealthy",
          message |-> IF IsError(outcome.value) THEN outcome.value.message
                      ELSE <<"Not checked">>,
          at |-> Undefined,
          threw |-> FALSE]

checkDatabase_Rethrows(outcome, now) ==
    IF ~outcome.threw
    THEN [status |-> "healthy", message |-> <<"Connected">>, at |-> Time(now),
          threw |-> FALSE]
    ELSE [status |-> "unhealthy",
          message |-> IF IsError(outcome.value) THEN outcome.value.message
                      ELSE <<"Connection failed">>,
          at |-> Undefined,
          threw |-> TRUE]

\* checkDatabase(): the record it writes for a probe outcome, and whether
\* it throws.
checkDatabase(outcome, now) ==
    IF ~outcome.threw
    THEN [status |-> "healthy", message |-> <<"Connected">>, at |-> Time(now),
          threw |-> FALSE]
    ELSE [status |-> "unhealthy",
          message |-> IF IsError(outcome.value) THEN outcome.value.message
                      ELSE <<"Connection failed">>,
          at |-> Undefined,
          threw |-> FALSE]

checkAuth_StringifiesThrown(validatedAt, outcome, now) ==
    IF ~outcome.threw
    THEN [status |-> "healthy", message |-> <<"Configuration valid">>,
          at |-> Time(now), threw |-> FALSE]
    ELSE LET errorMessage == IF IsError(outcome.value) THEN outcome.value.message
                             ELSE outcome.value.v
         IN IF Includes(errorMessage, FatalSignature)
            THEN [status |-> "unhealthy", message |-> SecretMismatchMessage,
                  at |-> validatedAt, threw |-> TRUE]
            ELSE [status |-> "unhealthy",
                  message |-> <<"Configuration error: ">> \o errorMessage,
                  at |-> Undefined,
                  threw |-> FALSE]

checkAuth_NeverFatal(validatedAt, outcome, now) ==
    IF ~outcome.threw
    THEN [status |-> "healthy", message |-> <<"Configuration valid">>,
          at |-> Time(now), threw |-> FALSE]
    ELSE LET errorMessage == IF IsError(outcome.value) THEN outcome.value.message
                             ELSE <<"Unknown error">>
         IN [status |-> "unhealthy",
             message |-> <<"Configuration error: ">> \o errorMessage,
             at |-> Undefined,
             threw |-> FALSE]

\* checkAuth(): the record it writes for a probe outcome, and whether it
\* throws.  On the fatal path the throw comes before the assignment to
\* authValidatedAt, which keeps the value it had.
checkAuth(validatedAt, outcome, now) ==
    IF ~outcome.threw
    THEN [status |-> "healthy", message |-> <<"Configuration valid">>,
          at |-> Time(now), threw |-> FALSE]
    ELSE LET errorMessage == IF IsError(outcome.value) THEN outcome.value.message
                             ELSE <<"Unknown error">>
         IN IF Includes(errorMessage, FatalSignature)
            THEN [status |-> "unhealthy", message |-> SecretMismatchMessage,
                  at |-> validatedAt, threw |-> TRUE]
            ELSE [status |-> "unhealthy",
                  message |-> <<"Configuration error: ">> \o errorMessage,
                  at |-> Undefined,
                  threw |-> FALSE]

getOverallStatus_DatabaseFirst(auth, db) ==
    IF db = "unhealthy" THEN "degraded"
    ELSE IF auth = "unhealthy" THEN "unhealthy"
    ELSE "healthy"

\* getOverallStatus()
getOverallStatus(auth, db) ==
    IF auth = "unhealthy" THEN "unhealthy"
    ELSE IF db = "unhealthy" THEN "degraded"
    ELSE "healthy"

\* getHealth()
getHealth ==
    [status |-> getOverallStatus(authStatus, dbStatus),
     timestamp |-> Time(clock),
     checks |-> [database |-> [status |-> dbStatus, message |-> dbMessage,
                               connectedAt |-> dbConnectedAt],
                 auth |-> [status |-> authStatus, message |-> authMessage,
                           validatedAt |-> authValidatedAt]],
     version |-> "1.0.0"]

\* isDatabaseAvailable()
isDatabaseAvailable == dbStatus = "healthy"

\* isAuthAvailable()
isAuthAvailable == authStatus = "healthy"

(***************************************************************************)
(* Initial state: a new ServiceRegistry and a new HealthService            *)
(***************************************************************************)
Runs == 1..NRuns

\* No invocation: none has started a probe yet.
NoRun == 0

HealthNew_Optimistic ==
    /\ dbStatus = "healthy"
    /\ dbMessage = <<"Not checked">>
    /\ dbConnectedAt = Undefined
    /\ authStatus = "healthy"
    /\ authMessage = <<"Not checked">>
    /\ authValidatedAt = Undefined
    /\ clock = 0
    /\ pc = [r \in Runs |-> "idle"]
    /\ store = [r \in Runs |-> NoValue]
    /\ lastDbWriter = NoRun
    /\ last = [run |-> NoRun, probe |-> "none", outcome |-> Resolved]

\* The state of `new HealthService()`, with no invocation started.
HealthNew ==
    /\ dbStatus = "unhealthy"
    /\ dbMessage = <<"Not checked">>
    /\ dbConnectedAt = Undefined
    /\ authStatus = "unhealthy"
    /\ authMessage = <<"Not checked">>
    /\ authValidatedAt = Undefined
    /\ clock = 0
    /\ pc = [r \in Runs |-> "idle"]
    /\ store = [r \in Runs |-> NoValue]
    /\ lastDbWriter = NoRun
    /\ last = [run |-> NoRun, probe |-> "none", outcome |-> Resolved]

(***************************************************************************)
(* The services namespace (services/service-registry.ts): one registry,    *)
(* the auto-register flag, and the configuration the email factory reads.  *)
(***************************************************************************)
registerServices_KeepsExisting(fs, is, reg) ==
    IF reg \/ MapHas(fs, "email")
    THEN [factories |-> fs, instances |-> is, registered |-> TRUE]
    ELSE LET r == register(fs, is, "email", EmailFactory) IN
         [factories |-> r.factories, instances |-> r.instances, registered |-> TRUE]

registerServices_FlagOnly(fs, is, reg) ==
    [factories |-> fs, instances |-> is, registered |-> TRUE]

registerServices_Always(fs, is, reg) ==
    LET r == register(fs, is, "email", EmailFactory) IN
    [factories |-> r.factories, instances |-> r.instances, registered |-> TRUE]

\* registerServices()
registerServices(fs, is, reg) ==
    IF reg
    THEN [factories |-> fs, instances |-> is, registered |-> reg]
    ELSE LET r == register(fs, is, "email", EmailFactory) IN
         [factories |-> r.factories, instances |-> r.instances, registered |-> TRUE]

\* Property keys: strings and symbols.
PStr(name) == [t |-> "string", name |-> name]

PSym(name) == [t |-> "symbol", name |-> name]

EmailProp == PStr("email")

\* The properties read in the model: the one service, a name that is no
\* service, a method of the registry, and a symbol.
Props == {EmailProp, PStr("foo"), PStr("has"), PSym("Symbol.toPrimitive")}

\* prop in target && typeof target[prop] === 'function': the methods of
\* ServiceRegistry (and those it inherits from Object.prototype).
RegistryMethods == {"register", "get", "has", "getRegistered", "reset", "clear"}

\* target[prop].bind(target)
BoundMethod(name) == [t |-> "function", name |-> name, bound |-> "registry"]

servicesProxyGet_NoAutoRegister(fs, is, nr, reg, cfg, prop) ==
    IF prop.t = "string"
    THEN IF prop.name \in RegistryMethods
         THEN [threw |-> FALSE, value |-> BoundMethod(prop.name), invoked |-> <<>>,
               factories |-> fs, instances |-> is, nextRef |-> nr, registered |-> reg]
         ELSE LET g == get(fs, is, nr, prop.name, cfg) IN
              [threw |-> g.threw, value |-> g.value, invoked |-> g.invoked,
               factories |-> fs, instances |-> g.instances,
               nextRef |-> g.nextRef, registered |-> reg]
    ELSE [threw |-> FALSE, value |-> Undefined, invoked |-> <<>>,
          factories |-> fs, instances |-> is, nextRef |-> nr, registered |-> reg]

\* The get trap of servicesProxy: services[prop].
servicesProxyGet(fs, is, nr, reg, cfg, prop) ==
    LET a == registerServices(fs, is, reg) IN
    IF prop.t = "string"
    THEN IF prop.name \in RegistryMethods
         THEN [threw |-> FALSE, value |-> BoundMethod(prop.name), invoked |-> <<>>,
               factories |-> a.factories, instances |-> a.instances,
               nextRef |-> nr, registered |-> a.registered]
         ELSE LET g == get(a.factories, a.instances, nr, prop.name, cfg) IN
              [threw |-> g.threw, value |-> g.value, invoked |-> g.invoked,
               factories |-> a.factories, instances |-> g.instances,
               nextRef |-> g.nextRef, registered |-> a.registered]
    ELSE [threw |-> FALSE, value |-> Undefined, invoked |-> <<>>,
          factories |-> a.factories, instances |-> a.instances,
          nextRef |-> nr, registered |-> a.registered]

\* The override objects passed to configureServices, as Object.entries
\* lists them: none, or the email service replaced by a double.
OverrideSets == {<<>>} \cup {<<[key |-> "email", val |-> d]>> : d \in Doubles}

\* for (const [key, value] of Object.entries(overrides)) registry.register(...)
RECURSIVE registerEach(_, _, _)
registerEach(fs, is, entries) ==
    IF entries = <<>>
    THEN [factories |-> fs, instances |-> is]
    ELSE LET r == register(fs, is, Head(entries).key, Override(Head(entries).val)) IN
         registerEach(r.factories, r.instances, Tail(entries))

configureServices_ClearsCache(fs, is, reg, overrides) ==
    LET r == registerEach(fs, is, overrides) IN
    [factories |-> r.factories, instances |-> EmptyMap, registered |-> TRUE]

configureServices_LeavesFlag(fs, is, reg, overrides) ==
    LET r == registerEach(fs, is, overrides) IN
    [factories |-> r.factories, instances |-> r.instances, registered |-> reg]

\* configureServices(overrides)
configureServices(fs, is, reg, overrides) ==
    LET r == registerEach(fs, is, overrides) IN
    [factories |-> r.factories, instances |-> r.instances, registered |-> TRUE]

resetServices_KeepsFlag(fs, is, reg) ==
    LET r == reset(fs, is) IN
    [factories |-> r.factories, instances |-> r.instances, registered |-> reg]

\* resetServices()
resetServices(fs, is, reg) ==
    LET r == reset(fs, is) IN
    [factories |-> r.factories, instances |-> r.instances, registered |-> FALSE]

\* setTestConfig(overrides): config.email after Object.assign(config,
\* {...defaults, ...overrides}); email is Undefined when overrides has none.
setTestConfig(email) == IF email = Undefined THEN ConsoleConfig ELSE email

\* History of the namespace:
\*   held       the reference the last read of services.email returned,
\*              NoValue once configureServices, resetServices, clear() or
\*              reset() has come between
\*   again      registerServices() was called since that read
\*   override   the double of the last configureServices({email: d}), NoValue
\*              once resetServices(), clear() or another configureServices
\*              has followed
\*   by         the last call that changed the registry, if services.email
\*              has not been read since ("none" otherwise)
\*   dropped    the instance cached for email before that call
\*   regConfig  config.email when registerServices() registered the factory
\*              now registered for email (NoValue if it did not)
NoHistory ==
    [held |-> NoValue, again |-> FALSE, override |-> NoValue, by |-> "none",
     dropped |-> NoValue, regConfig |-> NoValue]

\* The module as loaded: an empty registry, nothing registered.
ServicesNew ==
    /\ registered = FALSE
    /\ config = ConsoleConfig
    /\ sret = [op |-> "load", prop |-> NoValue, threw |-> FALSE, value |-> Undefined,
               invoked |-> <<>>,
               before |-> [factories |-> EmptyMap, instances |-> EmptyMap, nextRef |-> 1,
                           registered |-> FALSE, config |-> ConsoleConfig],
               log |-> NoHistory]
    /\ slog = NoHistory

\* start() of index.ts has not been called.
BootNew == [pc |-> "new", skipped |-> FALSE, schema |-> "none", cause |-> "none"]

\* The step just taken was no getHealth() call and no GET /health.
NoReply == [op |-> "none", threw |-> FALSE, value |-> NoValue]

\* No factory of the key has been called.
NoCalls == [sinceReset |-> {}, returned |-> FALSE]

Callers == 1..NCallers

\* No task has called get yet.
RaceIdle ==
    /\ cpc = [c \in Callers |-> "idle"]
    /\ arg = [c \in Callers |-> ""]
    /\ got = [c \in Callers |-> NoValue]
    /\ first = [c \in Callers |-> FALSE]
    /\ built = [k \in Keys |-> 0]

RegInit ==
    /\ factories = EmptyMap
    /\ instances = EmptyMap
    /\ nextRef = 1
    /\ ret = [op |-> "new", key |-> "", threw |-> FALSE, value |-> Undefined,
              invoked |-> <<>>,
              before |-> [factories |-> EmptyMap, instances |-> EmptyMap, nextRef |-> 1],
              log |-> FreshLog]
    /\ log = [k \in Keys |-> FreshLog]
    /\ RaceIdle
    /\ HealthNew
    /\ hist = [k \in Keys |-> NoCalls]
    /\ reply = NoReply
    /\ ServicesNew
    /\ boot = BootNew

(***************************************************************************)
(* The registry's callers: any sequence of its public methods              *)
(***************************************************************************)
Register(k, f) ==
    LET r == register(factories, instances, k, f) IN
    /\ factories' = r.factories
    /\ instances' = r.instances
    /\ ret' = Returned("register", k, FALSE, Undefined, <<>>)
    /\ log' = [log EXCEPT ![k] = Invalidated(factories, instances, k, "register")]
    /\ UNCHANGED nextRef
    /\ UNCHANGED <<raceVars, healthVars>>

Get(k, outcome) ==
    LET r == get(factories, instances, nextRef, k, outcome) IN
    /\ r.nextRef <= MaxRefs + 1
    /\ instances' = r.instances
    /\ nextRef' = r.nextRef
    /\ ret' = Returned("get", k, r.threw, r.value, r.invoked)
    /\ log' = IF r.threw THEN log
              ELSE [log EXCEPT ![k] = [FreshLog EXCEPT !.since = r.value]]
    /\ UNCHANGED factories
    /\ UNCHANGED <<raceVars, healthVars>>

Has(k) ==
    /\ ret' = Returned("has", k, FALSE, Bool(has(factories, instances, k)), <<>>)
    /\ UNCHANGED <<factories, instances, nextRef, log>>
    /\ UNCHANGED <<raceVars, healthVars>>

GetRegistered ==
    /\ ret' = Returned("getRegistered", "", FALSE, Arr(getRegistered(factories)), <<>>)
    /\ UNCHANGED <<factories, instances, nextRef, log>>
    /\ UNCHANGED <<raceVars, healthVars>>

Reset ==
    LET r == reset(factories, instances) IN
    /\ factories' = r.factories
    /\ instances' = r.instances
    /\ ret' = Returned("reset", "", FALSE, Undefined, <<>>)
    /\ log' = [k \in Keys |->
                 IF MapHas(factories, k) \/ MapHas(instances, k)
                 THEN Invalidated(factories, instances, k, "reset")
                 ELSE log[k]]
    /\ UNCHANGED nextRef
    /\ UNCHANGED <<raceVars, healthVars>>

Clear ==
    LET r == clear(factories, instances) IN
    /\ factories' = r.factories
    /\ instances' = r.instances
    /\ ret' = Returned("clear", "", FALSE, Undefined, <<>>)
    /\ log' = [k \in Keys |->
                 IF MapHas(factories, k) \/ MapHas(instances, k)
                 THEN Invalidated(factories, instances, k, "clear")
                 ELSE log[k]]
    /\ UNCHANGED nextRef
    /\ UNCHANGED <<raceVars, healthVars>>

RegNext ==
    /\ \/ \E k \in Keys, f \in Factories : Register(k, f)
       \/ \E k \in Keys, outcome \in Outcomes : Get(k, outcome)
       \/ \E k \in Keys : Has(k)
       \/ GetRegistered
       \/ Reset
       \/ Clear
    /\ UNCHANGED laterVars

RegSpec == RegInit /\ [][RegNext]_vars

(***************************************************************************)
(* Claims about the ServiceRegistry, checked under RegSpec                 *)
(***************************************************************************)
\* The factory registered for the key of the last call, before the call.
FactoryBefore == MapGet(ret.before.factories, ret.key)

\* What one returning invocation of factory f made by the last call returns.
Produced(f) == Invoke(f, ret.before.nextRef, "returns").value

\* C1: get caches per key. A get(k) that follows a get(k) which returned r,
\* with no register(k), reset() or clear() in between, returns r and invokes
\* no factory, whatever was done to other keys meanwhile; a get(k) on a
\* registered key that has not returned since the last such operation
\* invokes k's factory exactly once.
C1_GetCachesPerKey ==
    ret.op = "get" =>
        /\ (ret.log.since # NoValue =>
                /\ ~ret.threw
                /\ ret.value = ret.log.since
                /\ ret.invoked = <<>>)
        /\ (ret.log.since = NoValue /\ FactoryBefore # Undefined =>
                ret.invoked = <<FactoryBefore>>)

\* A second get of a key returned the cached reference while the other key
\* also holds an instance.
C1_Witness ==
    /\ ret.op = "get"
    /\ ret.log.since # NoValue
    /\ ret.value = ret.log.since
    /\ ret.invoked = <<>>
    /\ \E k \in Keys \ {ret.key} : MapHas(instances, k)

\* C3: for a key with no registered factory, get(k) throws an error whose
\* message carries the key, invokes nothing and leaves factories and
\* instances as they were; has(k) returns false.
C3_UnregisteredGetFails ==
    /\ (ret.op = "get" /\ ~MapHas(ret.before.factories, ret.key) =>
            /\ ret.threw
            /\ ret.value.t = "Error"
            /\ Includes(ret.value.message, <<ret.key>>)
            /\ Includes(ret.value.message, <<"\" is not registered. ">>)
            /\ ret.invoked = <<>>
            /\ factories = ret.before.factories
            /\ instances = ret.before.instances
            /\ ~MapHas(instances, ret.key))
    /\ (ret.op = "has" /\ ~MapHas(ret.before.factories, ret.key) =>
            ret.value = Bool(FALSE))

\* get threw for an unregistered key while another key is registered.
C3_Witness ==
    /\ ret.op = "get"
    /\ ret.threw
    /\ ~MapHas(factories, ret.key)
    /\ Len(factories) > 0

\* The last call is the first returning or throwing get(k) after k was
\* re-registered with a factory other than the one it had.
AfterReRegister ==
    /\ ret.op = "get"
    /\ ret.log.by = "register"
    /\ ret.log.oldFactory # Undefined
    /\ ret.log.oldFactory # FactoryBefore

\* C4 as amended: re-registering k with a new factory does not throw and
\* leaves no cached instance for k; the next get(k) invokes the new factory,
\* once, and not the old one, and returns what the new factory returns (so
\* the old instance is served again only if the new factory returns that
\* very object).
C4_ReRegisterUsesNewFactory ==
    /\ (ret.op = "register" =>
            /\ ~ret.threw
            /\ ~MapHas(instances, ret.key)
            /\ MapHas(factories, ret.key))
    /\ (AfterReRegister =>
            /\ ret.invoked = <<FactoryBefore>>
            /\ (~ret.threw => ret.value = Produced(FactoryBefore)))

\* C4 as claimed: moreover the instance discarded by the re-registration is
\* never returned again.
C4_OldInstanceNeverReturned ==
    /\ C4_ReRegisterUsesNewFactory
    /\ (AfterReRegister /\ ~ret.threw => ret.value # ret.log.dropped)

\* A get after a re-registration that discarded a cached instance returned
\* another object.
C4_Witness ==
    /\ AfterReRegister
    /\ ret.log.dropped # NoValue
    /\ ~ret.threw
    /\ ret.value # ret.log.dropped

\* The last call is the first get(k) after a reset() that found k registered.
AfterReset ==
    /\ ret.op = "get"
    /\ ret.log.by = "reset"
    /\ ret.log.oldFactory # Undefined

\* C5 as amended: reset() empties the instance cache and leaves the
\* factories as they were (has(k) stays true); the next get(k) invokes the
\* factory k already had, once, and returns what that invocation returns.
C5_ResetKeepsFactories ==
    /\ (ret.op = "reset" =>
            /\ instances = EmptyMap
            /\ factories = ret.before.factories
            /\ \A k \in Keys :
                   MapHas(ret.before.factories, k) => has(factories, instances, k))
    /\ (AfterReset =>
            /\ FactoryBefore = ret.log.oldFactory
            /\ ret.invoked = <<FactoryBefore>>
            /\ (~ret.threw => ret.value = Produced(FactoryBefore)))

\* C5 as claimed: moreover the instance returned by that get is never the
\* reference that was cached before the reset.
C5_NewInstanceAfterReset ==
    /\ C5_ResetKeepsFactories
    /\ (AfterReset /\ ~ret.threw => ret.value # ret.log.dropped)

\* A get after a reset that discarded a cached instance returned another
\* object.
C5_Witness ==
    /\ AfterReset
    /\ ret.log.dropped # NoValue
    /\ ~ret.threw
    /\ ret.value # ret.log.dropped

\* C6: clear() empties factories and instances: has(k) is false for every
\* key, getRegistered() is empty, and until k is registered again get(k)
\* throws the not-registered error and has(k) returns false.
C6_ClearRemovesAll ==
    /\ (ret.op = "clear" =>
            /\ \A k \in Keys : ~has(factories, instances, k)
            /\ getRegistered(factories) = <<>>
            /\ instances = EmptyMap)
    /\ (ret.op = "get" /\ ret.log.by = "clear" =>
            /\ ret.threw
            /\ ret.value = NotRegisteredError(ret.key)
            /\ ret.invoked = <<>>)
    /\ (ret.op = "has" /\ ret.log.by = "clear" => ret.value = Bool(FALSE))

\* get threw for a key whose factory and cached instance a clear() removed.
C6_Witness ==
    /\ ret.op = "get"
    /\ ret.log.by = "clear"
    /\ ret.log.oldFactory # Undefined
    /\ ret.log.dropped # NoValue
    /\ ret.threw

(***************************************************************************)
(* Concurrent callers of get.  Each task announces its call (Call) and     *)
(* later runs it (Run).  get contains no await, so on the single-threaded  *)
(* event loop one call runs to completion before the next starts: Run is   *)
(* one step.  register, reset and clear may run between the calls.         *)
(***************************************************************************)
Unbuilt(fs, is, k) == MapHas(fs, k) /\ ~MapHas(is, k)

\* After register(k)/reset()/clear() the results obtained for the keys in ks
\* are no longer comparable with later ones: their callers start over.
Forget(ks, fs, is) ==
    /\ cpc' = [c \in Callers |->
                 IF arg[c] \in ks /\ cpc[c] \in {"returned", "threw"} THEN "idle" ELSE cpc[c]]
    /\ got' = [c \in Callers |->
                 IF arg[c] \in ks /\ cpc[c] \in {"returned", "threw"} THEN NoValue ELSE got[c]]
    /\ first' = [c \in Callers |->
                 IF cpc[c] = "calling" THEN Unbuilt(fs, is, arg[c])
                 ELSE IF arg[c] \in ks THEN FALSE
                 ELSE first[c]]
    /\ built' = [k \in Keys |-> IF k \in ks THEN 0 ELSE built[k]]
    /\ UNCHANGED arg

RaceInit == RegInit

Call(c, k) ==
    /\ cpc[c] # "calling"
    /\ cpc' = [cpc EXCEPT ![c] = "calling"]
    /\ arg' = [arg EXCEPT ![c] = k]
    /\ got' = [got EXCEPT ![c] = NoValue]
    /\ first' = [first EXCEPT ![c] = Unbuilt(factories, instances, k)]
    /\ UNCHANGED <<regVars, seqVars, built, healthVars>>

Run(c, outcome) ==
    LET r == get(factories, instances, nextRef, arg[c], outcome) IN
    /\ cpc[c] = "calling"
    /\ r.nextRef <= MaxRefs + 1
    /\ instances' = r.instances
    /\ nextRef' = r.nextRef
    /\ cpc' = [cpc EXCEPT ![c] = IF r.threw THEN "threw" ELSE "returned"]
    /\ got' = [got EXCEPT ![c] = r.value]
    /\ built' = [built EXCEPT ![arg[c]] = @ + (IF r.threw THEN 0 ELSE Len(r.invoked))]
    /\ UNCHANGED <<factories, seqVars, arg, first, healthVars>>

RaceRegister(k, f) ==
    LET r == register(factories, instances, k, f) IN
    /\ factories' = r.factories
    /\ instances' = r.instances
    /\ Forget({k}, r.factories, r.instances)
    /\ UNCHANGED <<nextRef, seqVars, healthVars>>

RaceReset ==
    LET r == reset(factories, instances) IN
    /\ factories' = r.factories
    /\ instances' = r.instances
    /\ Forget(Keys, r.factories, r.instances)
    /\ UNCHANGED <<nextRef, seqVars, healthVars>>

RaceClear ==
    LET r == clear(factories, instances) IN
    /\ factories' = r.factories
    /\ instances' = r.instances
    /\ Forget(Keys, r.factories, r.instances)
    /\ UNCHANGED <<nextRef, seqVars, healthVars>>

RaceNext ==
    /\ \/ \E c \in Callers, k \in Keys : Call(c, k)
       \/ \E c \in Callers, outcome \in Outcomes : Run(c, outcome)
       \/ \E k \in Keys, f \in Factories : RaceRegister(k, f)
       \/ RaceReset
       \/ RaceClear
    /\ UNCHANGED laterVars

RaceSpec == RaceInit /\ [][RaceNext]_vars

\* C2: among concurrent get(k) calls with no register(k), reset() or clear()
\* in between, the factory of k returns an instance at most once, every call
\* that returns returns that one instance, and it is the cached one: a call
\* that runs after the constructing call returns the cached instance and
\* does not invoke the factory.
C2_ConcurrentFirstGet ==
    \A k \in Keys :
        /\ built[k] <= 1
        /\ \A c \in Callers :
               arg[c] = k /\ cpc[c] = "returned" =>
                   /\ built[k] = 1
                   /\ MapHas(instances, k)
                   /\ MapGet(instances, k) = got[c]
                   /\ \A d \in Callers :
                          arg[d] = k /\ cpc[d] = "returned" => got[d] = got[c]

\* Two tasks called get(k) while k was registered and not constructed, and
\* both have returned.
C2_Witness ==
    \E c, d \in Callers :
        /\ c # d
        /\ first[c] /\ first[d]
        /\ arg[c] = arg[d]
        /\ cpc[c] = "returned" /\ cpc[d] = "returned"
        /\ got[c] = got[d]
        /\ built[arg[c]] = 1

(***************************************************************************)
(* runStartupChecks() invocations, interleaved at their await points, and  *)
(* the wall clock.  getHealth() reads the state and changes nothing: it is *)
(* the operator getHealth, which can be evaluated in every state.          *)
(*                                                                         *)
(* pc[r]: idle -> dbAwait (awaiting db.execute) -> dbDone (checkDatabase   *)
(* returned) -> authAwait (awaiting generateOpenAPISchema) -> authDone     *)
(* (checkAuth returned) -> done, or authAwait -> raised when checkAuth     *)
(* throws and the rejection reaches the caller.  A probe that throws       *)
(* before its first await is caught by the same try block and writes the   *)
(* same record; it is the case of the probe settling at once.              *)
(***************************************************************************)
HealthInit == RegInit

StartRun(r) ==
    /\ pc[r] = "idle"
    /\ pc' = [pc EXCEPT ![r] = "dbAwait"]
    /\ UNCHANGED <<healthFields, clock, store, lastDbWriter, last>>
    /\ UNCHANGED <<regVars, seqVars, raceVars>>

DbSettle(r, outcome) ==
    LET rec == checkDatabase(outcome, clock) IN
    /\ pc[r] = "dbAwait"
    /\ dbStatus' = rec.status
    /\ dbMessage' = rec.message
    /\ dbConnectedAt' = rec.at
    /\ store' = [store EXCEPT ![r] = [status |-> rec.status, message |-> rec.message]]
    /\ lastDbWriter' = r
    /\ last' = [run |-> r, probe |-> "database", outcome |-> outcome]
    /\ pc' = [pc EXCEPT ![r] = IF rec.threw THEN "raised" ELSE "dbDone"]
    /\ UNCHANGED <<authStatus, authMessage, authValidatedAt, clock>>
    /\ UNCHANGED <<regVars, seqVars, raceVars>>

CanStartAuth_NoAwait(r) == pc[r] \in {"dbAwait", "dbDone"}

\* await this.checkDatabase(); then this.checkAuth()
CanStartAuth(r) == pc[r] = "dbDone"

StartAuth(r) ==
    /\ CanStartAuth(r)
    /\ pc' = [pc EXCEPT ![r] = "authAwait"]
    /\ UNCHANGED <<healthFields, clock, store, lastDbWriter, last>>
    /\ UNCHANGED <<regVars, seqVars, raceVars>>

AuthSettle_Torn(r, outcome) ==
    LET rec == checkAuth(authValidatedAt, outcome, clock) IN
    /\ pc[r] = "authAwait"
    /\ authStatus' = rec.status
    /\ authValidatedAt' = rec.at
    /\ last' = [run |-> r, probe |-> "auth", outcome |-> outcome]
    /\ pc' = [pc EXCEPT ![r] = IF rec.threw THEN "raised" ELSE "authDone"]
    /\ UNCHANGED <<authMessage, dbStatus, dbMessage, dbConnectedAt, clock, store, lastDbWriter>>
    /\ UNCHANGED <<regVars, seqVars, raceVars>>

AuthSettle(r, outcome) ==
    LET rec == checkAuth(authValidatedAt, outcome, clock) IN
    /\ pc[r] = "authAwait"
    /\ authStatus' = rec.status
    /\ authMessage' = rec.message
    /\ authValidatedAt' = rec.at
    /\ last' = [run |-> r, probe |-> "auth", outcome |-> outcome]
    /\ pc' = [pc EXCEPT ![r] = IF rec.threw THEN "raised" ELSE "authDone"]
    /\ UNCHANGED <<dbStatus, dbMessage, dbConnectedAt, clock, store, lastDbWriter>>
    /\ UNCHANGED <<regVars, seqVars, raceVars>>

\* runStartupChecks() logs the overall status (the logger is not modelled)
\* and returns.
Finish(r) ==
    /\ pc[r] = "authDone"
    /\ pc' = [pc EXCEPT ![r] = "done"]
    /\ UNCHANGED <<healthFields, clock, store, lastDbWriter, last>>
    /\ UNCHANGED <<regVars, seqVars, raceVars>>

Tick ==
    /\ clock < MaxClock
    /\ clock' = clock + 1
    /\ UNCHANGED <<healthFields, pc, store, lastDbWriter, last>>
    /\ UNCHANGED <<regVars, seqVars, raceVars>>

\* One step of some runStartupChecks() invocation, or of the clock.
HealthStep ==
    \/ \E r \in Runs : StartRun(r)
    \/ \E r \in Runs, outcome \in DbOutcomes : DbSettle(r, outcome)
    \/ \E r \in Runs : StartAuth(r)
    \/ \E r \in Runs, outcome \in AuthOutcomes : AuthSettle(r, outcome)
    \/ \E r \in Runs : Finish(r)
    \/ Tick

HealthNext == HealthStep /\ UNCHANGED laterVars

HealthSpec == HealthInit /\ [][HealthNext]_vars

(***************************************************************************)
(* Claims about the HealthService, checked under HealthSpec                *)
(***************************************************************************)
\* C7: the aggregate status getHealth() returns is 'unhealthy' whenever the
\* auth check is 'unhealthy', whatever the database status; otherwise it is
\* 'degraded' exactly when the database check is 'unhealthy'; otherwise it
\* is 'healthy'.
C7_AggregateStatus ==
    LET h == getHealth
        a == h.checks.auth.status
        d == h.checks.database.status
    IN /\ (a = "unhealthy" => h.status = "unhealthy")
       /\ (a # "unhealthy" => (h.status = "degraded" <=> d = "unhealthy"))
       /\ (a # "unhealthy" /\ d # "unhealthy" => h.status = "healthy")

\* getHealth() reports 'unhealthy' while the database check is 'healthy',
\* after a store probe succeeded and a credential probe failed.
C7_Witness ==
    /\ getHealth.status = "unhealthy"
    /\ getHealth.checks.database.status = "healthy"
    /\ last.probe = "auth"
    /\ last.outcome.threw

\* The message the credential probe failed with.
FailureMessage(outcome) ==
    IF IsError(outcome.value) THEN outcome.value.message ELSE <<"Unknown error">>

C9_StoreFailureNeverRaises ==
    last.probe = "database" /\ last.outcome.threw =>
        /\ dbStatus = "unhealthy"
        /\ dbMessage = (IF IsError(last.outcome.value) THEN last.outcome.value.message
                        ELSE <<"Connection failed">>)
        /\ dbConnectedAt = Undefined
        /\ pc[last.run] \in {"dbDone", "authAwait"}
        /\ (pc[last.run] = "dbDone" => ENABLED StartAuth(last.run))

\* The store probe threw an Error whose message holds the JWKS signature;
\* the invocation went on to its credential probe.
C9_Witness ==
    /\ last.probe = "database"
    /\ last.outcome = Rejected(Err(FatalSignature))
    /\ dbStatus = "unhealthy"
    /\ pc[last.run] = "authAwait"

\* The invocation last.run has just raised the fatal error.
JustRaised == last.probe = "auth" /\ pc[last.run] = "raised"

\* C10 as amended: an invocation's credential probe does not start until
\* its store probe has recorded its result; when the invocation raises the
\* fatal error, the database check holds the result of the store probe that
\* settled last, which is this invocation's own unless the store probe of
\* an overlapping invocation settled after it.
C10_StoreBeforeCredentials ==
    /\ \A r \in Runs :
           pc[r] \in {"authAwait", "authDone", "done", "raised"} => store[r] # NoValue
    /\ (lastDbWriter # NoRun =>
            /\ store[lastDbWriter] # NoValue
            /\ dbStatus = store[lastDbWriter].status
            /\ dbMessage = store[lastDbWriter].message)
    /\ (JustRaised /\ lastDbWriter = last.run =>
            /\ dbStatus = store[last.run].status
            /\ dbMessage = store[last.run].message)

\* C10 as claimed: whenever an invocation raises the fatal error, the
\* database check holds the result of that invocation's store probe.
C10_RaisedHoldsOwnStoreResult ==
    JustRaised =>
        /\ store[last.run] # NoValue
        /\ dbStatus = store[last.run].status
        /\ dbMessage = store[last.run].message

\* An invocation raised the fatal error after its own store probe, the last
\* to settle, had recorded 'healthy'.
C10_Witness ==
    /\ JustRaised
    /\ lastDbWriter = last.run
    /\ store[last.run] # NoValue
    /\ store[last.run].status = "healthy"
    /\ dbStatus = "healthy"

\* C13: for each dependency the observed-at timestamp (dbConnectedAt,
\* authValidatedAt) is present only when the recorded status of that check
\* is not 'unhealthy', after any sequence of probe runs.
C13_TimestampOnlyWhenNotUnhealthy ==
    /\ (dbConnectedAt # Undefined => dbStatus # "unhealthy")
    /\ (authValidatedAt # Undefined => authStatus # "unhealthy")

(***************************************************************************)
(* Readers of the health state, beside the runStartupChecks() invocations: *)
(* direct getHealth() calls and the GET /health route handler.             *)
(***************************************************************************)
GetHealth_Probes ==
    /\ reply' = [op |-> "getHealth", threw |-> FALSE, value |-> getHealth]
    /\ \E outcome \in DbOutcomes :
           LET rec == checkDatabase(outcome, clock) IN
           /\ dbStatus' = rec.status
           /\ dbMessage' = rec.message
           /\ dbConnectedAt' = rec.at
    /\ UNCHANGED <<authStatus, authMessage, authValidatedAt>>
    /\ UNCHANGED <<clock, pc, store, lastDbWriter, last>>
    /\ UNCHANGED <<regVars, seqVars, raceVars, hist, svcVars, boot>>

\* healthService.getHealth(): builds the HealthCheck from the fields and
\* assigns none of them.
GetHealth ==
    /\ reply' = [op |-> "getHealth", threw |-> FALSE, value |-> getHealth]
    /\ UNCHANGED healthVars
    /\ UNCHANGED <<regVars, seqVars, raceVars, hist, svcVars, boot>>

StatusCode_OnlyHealthyOk(status) == IF status = "healthy" THEN 200 ELSE 503

\* health.status === 'unhealthy' ? 503 : 200
StatusCode(status) == IF status = "unhealthy" THEN 503 ELSE 200

\* The GET /health handler: reply.status(statusCode).send(health)
healthHandler ==
    LET health == getHealth IN
    [statusCode |-> StatusCode(health.status), body |-> health]

HealthRequest ==
    /\ reply' = [op |-> "GET /health", threw |-> FALSE, value |-> healthHandler]
    /\ UNCHANGED healthVars
    /\ UNCHANGED <<regVars, seqVars, raceVars, hist, svcVars, boot>>

ServeNext ==
    \/ /\ HealthStep
       /\ reply' = NoReply
       /\ UNCHANGED <<hist, svcVars, boot>>
    \/ GetHealth
    \/ HealthRequest

ServeSpec == HealthInit /\ [][ServeNext]_vars

(***************************************************************************)
(* Claims about the readers, checked under ServeSpec                       *)
(***************************************************************************)
\* C11: getHealth() is a pure read. A getHealth() call returns, without
\* throwing, the record built from the fields as they are, starts and
\* settles no probe and leaves every recorded status, message and timestamp
\* as it was; and a step that changes one of those fields is a probe of
\* some runStartupChecks() invocation settling.
C11_GetHealthIsPureRead ==
    [][/\ (reply'.op = "getHealth" =>
              /\ ~reply'.threw
              /\ reply'.value = getHealth
              /\ healthFields' = healthFields
              /\ pc' = pc
              /\ last' = last)
       /\ (healthFields' # healthFields =>
              /\ last' # last
              /\ last'.probe \in {"database", "auth"})]_vars

\* getHealth() was called during the startup checks, between a store probe
\* that succeeded and the settling of the credential probe.
C11_Witness ==
    /\ reply.op = "getHealth"
    /\ \E r \in Runs : pc[r] = "authAwait"
    /\ reply.value.checks.database.status = "healthy"
    /\ reply.value.checks.auth.message = <<"Not checked">>

\* C12: GET /health answers 200 when the aggregate status is 'healthy' or
\* 'degraded' and 503 when it is 'unhealthy', and the body sent is the
\* structure getHealth() returns.
C12_EndpointStatusCode ==
    reply.op = "GET /health" =>
        LET rsp == reply.value IN
        /\ rsp.body = getHealth
        /\ rsp.body.status \in {"healthy", "degraded", "unhealthy"}
        /\ (rsp.body.status \in {"healthy", "degraded"} => rsp.statusCode = 200)
        /\ (rsp.body.status = "unhealthy" => rsp.statusCode = 503)

\* The endpoint answered 200 with a 'degraded' body.
C12_Witness ==
    /\ reply.op = "GET /health"
    /\ reply.value.statusCode = 200
    /\ reply.value.body.status = "degraded"
    /\ reply.value.body.checks.database.status = "unhealthy"

(***************************************************************************)
(* The registry with, per key, the record of the factory calls that        *)
(* returned.  has and getRegistered assign nothing and are left out of the *)
(* next-state relation; has is evaluated in every state.                   *)
(*                                                                         *)
(* hist[k].sinceReset  the factories whose call for k returned since the   *)
(*                     last reset() or clear()                             *)
(* hist[k].returned    a factory call for k returned since the last        *)
(*                     register(k), reset() or clear()                     *)
(***************************************************************************)
HistRegister(k, f) ==
    LET r == register(factories, instances, k, f) IN
    /\ factories' = r.factories
    /\ instances' = r.instances
    /\ hist' = [hist EXCEPT ![k].returned = FALSE]
    /\ UNCHANGED nextRef
    /\ UNCHANGED <<seqVars, raceVars, healthVars, reply, svcVars, boot>>

HistGet(k, outcome) ==
    LET r == get(factories, instances, nextRef, k, outcome)
        done == IF r.threw THEN {} ELSE {r.invoked[i] : i \in 1..Len(r.invoked)}
    IN
    /\ r.nextRef <= MaxRefs + 1
    /\ instances' = r.instances
    /\ nextRef' = r.nextRef
    /\ hist' = [hist EXCEPT ![k] = [sinceReset |-> @.sinceReset \cup done,
                                    returned |-> @.returned \/ done # {}]]
    /\ UNCHANGED factories
    /\ UNCHANGED <<seqVars, raceVars, healthVars, reply, svcVars, boot>>

HistReset ==
    LET r == reset(factories, instances) IN
    /\ factories' = r.factories
    /\ instances' = r.instances
    /\ hist' = [k \in Keys |-> NoCalls]
    /\ UNCHANGED nextRef
    /\ UNCHANGED <<seqVars, raceVars, healthVars, reply, svcVars, boot>>

HistClear ==
    LET r == clear(factories, instances) IN
    /\ factories' = r.factories
    /\ instances' = r.instances
    /\ hist' = [k \in Keys |-> NoCalls]
    /\ UNCHANGED nextRef
    /\ UNCHANGED <<seqVars, raceVars, healthVars, reply, svcVars, boot>>

HistNext ==
    \/ \E k \in Keys, f \in Factories : HistRegister(k, f)
    \/ \E k \in Keys, outcome \in Outcomes : HistGet(k, outcome)
    \/ HistReset
    \/ HistClear

HistSpec == RegInit /\ [][HistNext]_vars

\* has(k) is the same whatever the instances map holds.
HasReadsFactoriesOnly ==
    \A k \in Keys :
        /\ has(factories, instances, k) = has(factories, EmptyMap, k)
        /\ has(factories, instances, k) = (\E i \in 1..Len(factories) : factories[i].key = k)

\* C14 as amended: instances[k] is populated if and only if a factory call
\* for k has returned since the last register(k), reset() or clear();
\* has(k) depends only on the factories map.
C14_PopulatedIffReturnedSinceInvalidation ==
    /\ \A k \in Keys : MapHas(instances, k) <=> hist[k].returned
    /\ HasReadsFactoriesOnly

\* C14 as claimed: instances[k] is populated if and only if the factory
\* now registered for k has been invoked (and has returned) since the last
\* reset, also when k was re-registered with the same factory after a get.
C14_PopulatedIffInvokedSinceReset ==
    /\ \A k \in Keys :
           MapHas(instances, k) <=>
               (MapHas(factories, k) /\ MapGet(factories, k) \in hist[k].sinceReset)
    /\ HasReadsFactoriesOnly

\* One key holds an instance; the other was re-registered with the factory
\* that had built its instance, and holds none.
C14_Witness ==
    \E k, j \in Keys :
        /\ k # j
        /\ MapHas(instances, k) /\ hist[k].returned
        /\ MapHas(factories, j)
        /\ MapGet(factories, j) \in hist[j].sinceReset
        /\ ~MapHas(instances, j)

(***************************************************************************)
(* Callers of the services namespace: registerServices(), property reads   *)
(* through the proxy, configureServices(), resetServices(), clear() and    *)
(* reset() on getRegistry(), and setTestConfig().                          *)
(***************************************************************************)
SvcSnapshot ==
    [factories |-> factories, instances |-> instances, nextRef |-> nextRef,
     registered |-> registered, config |-> config]

SvcReturned(op, prop, threw, value, invoked) ==
    [op |-> op, prop |-> prop, threw |-> threw, value |-> value, invoked |-> invoked,
     before |-> SvcSnapshot, log |-> slog]

\* The instance cached for 'email', if any.
CachedEmail(is) == IF MapHas(is, "email") THEN MapGet(is, "email") ELSE NoValue

\* The history once registerServices() has registered the email factory.
AfterRegistration ==
    [slog EXCEPT !.held = NoValue, !.again = FALSE, !.override = NoValue,
                 !.by = "registerServices", !.regConfig = config]

RegisterServices ==
    LET r == registerServices(factories, instances, registered) IN
    /\ factories' = r.factories
    /\ instances' = r.instances
    /\ registered' = r.registered
    /\ sret' = SvcReturned("registerServices", NoValue, FALSE, Undefined, <<>>)
    /\ slog' = IF registered
               THEN [slog EXCEPT !.again = (slog.held # NoValue)]
               ELSE AfterRegistration
    /\ UNCHANGED <<nextRef, config>>
    /\ UNCHANGED <<seqVars, raceVars, healthVars, hist, reply, boot>>

ReadService(prop) ==
    LET r == servicesProxyGet(factories, instances, nextRef, registered, config, prop)
        base == IF registered THEN slog ELSE AfterRegistration
    IN
    /\ r.nextRef <= MaxRefs + 1
    /\ factories' = r.factories
    /\ instances' = r.instances
    /\ nextRef' = r.nextRef
    /\ registered' = r.registered
    /\ sret' = SvcReturned("read", prop, r.threw, r.value, r.invoked)
    /\ slog' = IF prop = EmailProp
               THEN [base EXCEPT !.held = IF r.threw THEN NoValue ELSE r.value,
                                 !.again = FALSE, !.by = "none", !.dropped = NoValue]
               ELSE base
    /\ UNCHANGED config
    /\ UNCHANGED <<seqVars, raceVars, healthVars, hist, reply, boot>>

ConfigureServices(overrides) ==
    LET r == configureServices(factories, instances, registered, overrides) IN
    /\ factories' = r.factories
    /\ instances' = r.instances
    /\ registered' = r.registered
    /\ sret' = SvcReturned("configureServices", NoValue, FALSE, Undefined, <<>>)
    /\ slog' = [held |-> NoValue, again |-> FALSE,
                override |-> IF overrides = <<>> THEN NoValue ELSE overrides[1].val,
                by |-> "configureServices",
                dropped |-> CachedEmail(instances),
                regConfig |-> IF overrides = <<>> THEN slog.regConfig ELSE NoValue]
    /\ UNCHANGED <<nextRef, config>>
    /\ UNCHANGED <<seqVars, raceVars, healthVars, hist, reply, boot>>

ResetServices ==
    LET r == resetServices(factories, instances, registered) IN
    /\ factories' = r.factories
    /\ instances' = r.instances
    /\ registered' = r.registered
    /\ sret' = SvcReturned("resetServices", NoValue, FALSE, Undefined, <<>>)
    /\ slog' = [NoHistory EXCEPT !.by = "resetServices",
                                 !.dropped = CachedEmail(instances),
                                 !.regConfig = slog.regConfig]
    /\ UNCHANGED <<nextRef, config>>
    /\ UNCHANGED <<seqVars, raceVars, healthVars, hist, reply, boot>>

\* getRegistry().clear()
SvcClear ==
    LET r == clear(factories, instances) IN
    /\ factories' = r.factories
    /\ instances' = r.instances
    /\ sret' = SvcReturned("clear", NoValue, FALSE, Undefined, <<>>)
    /\ slog' = [NoHistory EXCEPT !.by = "clear", !.dropped = CachedEmail(instances)]
    /\ UNCHANGED <<nextRef, registered, config>>
    /\ UNCHANGED <<seqVars, raceVars, healthVars, hist, reply, boot>>

\* getRegistry().reset()
SvcReset ==
    LET r == reset(factories, instances) IN
    /\ factories' = r.factories
    /\ instances' = r.instances
    /\ sret' = SvcReturned("reset", NoValue, FALSE, Undefined, <<>>)
    /\ slog' = [slog EXCEPT !.held = NoValue, !.again = FALSE, !.by = "reset",
                            !.dropped = CachedEmail(instances)]
    /\ UNCHANGED <<nextRef, registered, config>>
    /\ UNCHANGED <<seqVars, raceVars, healthVars, hist, reply, boot>>

SetTestConfig(email) ==
    /\ config' = setTestConfig(email)
    /\ sret' = SvcReturned("setTestConfig", NoValue, FALSE, Undefined, <<>>)
    /\ UNCHANGED <<regVars, registered, slog>>
    /\ UNCHANGED <<seqVars, raceVars, healthVars, hist, reply, boot>>

SvcNext ==
    \/ RegisterServices
    \/ \E prop \in Props : ReadService(prop)
    \/ \E overrides \in OverrideSets : ConfigureServices(overrides)
    \/ ResetServices
    \/ SvcClear
    \/ SvcReset
    \/ \E email \in Configs \cup {Undefined} : SetTestConfig(email)

SvcSpec == RegInit /\ [][SvcNext]_vars

(***************************************************************************)
(* Claims about the services namespace.                                    *)
(***************************************************************************)
\* What the read just taken produced, compared with an email service built
\* from configuration cfg under reference nr.
BuiltFrom(cfg, nr) ==
    IF cfg.type = "resend" /\ cfg.api_key = Undefined
    THEN /\ sret.threw
         /\ sret.value = ProviderError
    ELSE /\ ~sret.threw
         /\ sret.value.t = "object"
         /\ sret.value.id = nr
         /\ sret.value.provider[1] = cfg.type
         /\ sret.value.defaultFrom = cfg.from

EmailRead == sret.op = "read" /\ sret.prop = EmailProp

\* C15: registerServices() is idempotent: a call made after it has run (with
\* no resetServices() in between) changes neither the factories nor the cached
\* instances, so services.email returns the same reference before and after
\* the repeated calls.
C15_RegisterServicesIdempotent ==
    /\ (sret.op = "registerServices" /\ sret.before.registered) =>
          /\ factories = sret.before.factories
          /\ instances = sret.before.instances
          /\ nextRef = sret.before.nextRef
          /\ registered
    /\ (EmailRead /\ sret.log.held # NoValue /\ sret.log.again) =>
          /\ ~sret.threw
          /\ sret.value = sret.log.held
          /\ sret.invoked = <<>>

C15_Witness ==
    /\ EmailRead
    /\ sret.log.again
    /\ sret.log.held # NoValue
    /\ sret.log.held.t = "object"
    /\ sret.log.held.id > 0
    /\ sret.value = sret.log.held

C18_ResetServicesRebuilds ==
    /\ sret.op = "resetServices" =>
          /\ instances = EmptyMap
          /\ ~registered
          /\ factories = sret.before.factories
    /\ (EmailRead /\ sret.log.by = "resetServices") =>
          /\ ~sret.before.registered
          /\ registered
          /\ MapGet(factories, "email") = EmailFactory
          /\ sret.invoked = <<EmailFactory>>
          /\ BuiltFrom(sret.before.config, sret.before.nextRef)
          /\ ~sret.threw =>
                /\ sret.value # sret.log.dropped
                /\ MapGet(instances, "email") = sret.value

C18_Witness ==
    /\ EmailRead
    /\ sret.log.by = "resetServices"
    /\ sret.log.dropped # NoValue
    /\ sret.log.dropped.t = "object"
    /\ sret.log.dropped.id > 0
    /\ ~sret.threw
    /\ sret.value.id > sret.log.dropped.id
    /\ sret.value.provider # sret.log.dropped.provider

\* C19 (as stated): the email factory reads the configuration when it is
\* registered, so the service a constructing read returns is built from the
\* configuration in force when registerServices() ran.
C19_ConfigReadAtRegistration ==
    (EmailRead /\ sret.invoked = <<EmailFactory>>) =>
        BuiltFrom(IF sret.before.registered /\ sret.log.regConfig # NoValue
                  THEN sret.log.regConfig
                  ELSE sret.before.config,
                  sret.before.nextRef)

\* C19 (amended): the email factory reads the configuration when it is
\* invoked, at the first access that constructs the service, and not again
\* while that instance stays cached: a constructing read is built from the
\* configuration current at the read, and a read that finds the instance
\* cached returns it whatever the configuration has become.
C19_ConfigReadAtConstruction ==
    /\ (EmailRead /\ sret.invoked = <<EmailFactory>>) =>
          BuiltFrom(sret.before.config, sret.before.nextRef)
    /\ (EmailRead /\ sret.log.held # NoValue) =>
          /\ sret.invoked = <<>>
          /\ ~sret.threw
          /\ sret.value = sret.log.held

C19_Witness ==
    /\ EmailRead
    /\ sret.invoked = <<EmailFactory>>
    /\ sret.before.registered
    /\ sret.log.regConfig # NoValue
    /\ sret.log.regConfig # sret.before.config
    /\ ~sret.threw
    /\ sret.value.defaultFrom = sret.before.config.from
    /\ sret.value.defaultFrom # sret.log.regConfig.from

(***************************************************************************)
(* Process start: start() of index.ts.  boot.pc follows its awaits:        *)
(* new -> checking (inside buildApp, running the startup checks) -> built  *)
(* (buildApp resolved) -> routes (the three route plugins registered) ->   *)
(* ready (app.ready() resolved, OpenAPI merge enabled) -> merged ->        *)
(* listening (app.listen resolved) or exited.  buildApp is defined in      *)
(* './app'; its steps follow the control flow the specification gives for  *)
(* process start: it runs the startup checks as invocation BootRun unless  *)
(* they are explicitly skipped, and a fatal startup error rejects it.      *)
(***************************************************************************)
BootRun == 1

BootOnly == UNCHANGED <<regVars, seqVars, raceVars, healthVars, hist, reply, svcVars>>

\* buildApp() begins: the startup checks are run or explicitly skipped.
BuildApp(skip) ==
    /\ boot.pc = "new"
    /\ boot' = [boot EXCEPT !.pc = IF skip THEN "built" ELSE "checking",
                            !.skipped = skip]
    /\ BootOnly

\* A step of the runStartupChecks() invocation buildApp awaits.
StartupCheckStep ==
    /\ boot.pc = "checking"
    /\ \/ StartRun(BootRun)
       \/ \E outcome \in DbOutcomes : DbSettle(BootRun, outcome)
       \/ StartAuth(BootRun)
       \/ \E outcome \in AuthOutcomes : AuthSettle(BootRun, outcome)
       \/ Finish(BootRun)
    /\ UNCHANGED laterVars

\* runStartupChecks() returned: buildApp resolves.
BuildAppResolves ==
    /\ boot.pc = "checking"
    /\ pc[BootRun] = "done"
    /\ boot' = [boot EXCEPT !.pc = "built"]
    /\ BootOnly

\* runStartupChecks() raised the fatal startup error: buildApp rejects, the
\* await in start() is outside any try block, start() rejects and the
\* unhandled rejection ends the process.
BuildAppRejects ==
    /\ boot.pc = "checking"
    /\ pc[BootRun] = "raised"
    /\ boot' = [boot EXCEPT !.pc = "exited", !.cause = "unhandledRejection"]
    /\ BootOnly

BuildAppAwaited_NoAwait == boot.pc \in {"checking", "built"}

\* const app = await buildApp();
BuildAppAwaited == boot.pc = "built"

\* await app.register(healthRoutes / authRoutes / usersRoutes)
RegisterRoutes ==
    /\ BuildAppAwaited
    /\ boot' = [boot EXCEPT !.pc = "routes"]
    /\ BootOnly

\* if (config.openapi.enabled && config.openapi.include_better_auth_routes)
\*     await app.ready()
OpenApiBranch(enabled, include) ==
    /\ boot.pc = "routes"
    /\ boot' = [boot EXCEPT !.pc = IF enabled /\ include THEN "ready" ELSE "merged"]
    /\ BootOnly

\* try { await auth.api.generateOpenAPISchema(); ... } catch { console.error }
MergeSchema(outcome) ==
    /\ boot.pc = "ready"
    /\ boot' = [boot EXCEPT !.pc = "merged",
                            !.schema = IF outcome.threw THEN "failed" ELSE "merged"]
    /\ BootOnly

\* try { await app.listen(...) } catch (err) { process.exit(1) }
Listen(ok) ==
    /\ boot.pc = "merged"
    /\ boot' = IF ok THEN [boot EXCEPT !.pc = "listening"]
               ELSE [boot EXCEPT !.pc = "exited", !.cause = "listenFailed"]
    /\ BootOnly

\* A GET /health request reaches the handler of the listening server.
ServeRequest ==
    /\ boot.pc = "listening"
    /\ HealthRequest

BootTick ==
    /\ boot.pc \in {"checking", "listening"}
    /\ Tick
    /\ UNCHANGED laterVars

BootNext ==
    \/ \E skip \in BOOLEAN : BuildApp(skip)
    \/ StartupCheckStep
    \/ BuildAppResolves
    \/ BuildAppRejects
    \/ RegisterRoutes
    \/ \E enabled \in BOOLEAN, include \in BOOLEAN : OpenApiBranch(enabled, include)
    \/ \E outcome \in AuthOutcomes : MergeSchema(outcome)
    \/ \E ok \in BOOLEAN : Listen(ok)
    \/ ServeRequest
    \/ BootTick

BootSpec == RegInit /\ [][BootNext]_vars

NotCheckedMessage == <<"Not checked">>

\* The database probe may also throw an Error whose text is the message the
\* fields start with.
DbTexts == DbOutcomes \cup {Rejected(Err(NotCheckedMessage))}

\* The steps of HealthStep, the database probe drawing from DbTexts.
ProbeStep ==
    \/ \E r \in Runs : StartRun(r)
    \/ \E r \in Runs, outcome \in DbTexts : DbSettle(r, outcome)
    \/ \E r \in Runs : StartAuth(r)
    \/ \E r \in Runs, outcome \in AuthOutcomes : AuthSettle(r, outcome)
    \/ \E r \in Runs : Finish(r)
    \/ Tick

ProbeNext == ProbeStep /\ UNCHANGED laterVars

ProbeSpec == HealthInit /\ [][ProbeNext]_vars

\* Some invocation's database probe has settled.
DbProbed == lastDbWriter # NoRun

\* Some invocation's auth probe has settled (returned or raised).
AuthProbed == \E r \in Runs : pc[r] \in {"authDone", "done", "raised"}

KeySet(m) == {m[i].key : i \in 1..Len(m)}

\* C22: register(), has() and getRegistered() never invoke a factory and
\* never populate the instance cache (nor do reset() and clear()); a factory
\* is invoked only by get(), and only by a get() that finds no cached
\* instance for its key, which invokes the factory registered for that key.
C22_OnlyUncachedGetInvokes ==
    /\ ret.op \in {"register", "has", "getRegistered", "reset", "clear"} =>
          /\ ret.invoked = <<>>
          /\ nextRef = ret.before.nextRef
          /\ KeySet(instances) \subseteq KeySet(ret.before.instances)
          /\ \A k \in KeySet(instances) :
                MapGet(instances, k) = MapGet(ret.before.instances, k)
    /\ ret.op \in {"has", "getRegistered"} =>
          /\ instances = ret.before.instances
          /\ factories = ret.before.factories
    /\ ret.op = "get" =>
          /\ MapHas(ret.before.instances, ret.key) =>
                /\ ret.invoked = <<>>
                /\ nextRef = ret.before.nextRef
                /\ instances = ret.before.instances
          /\ ret.invoked # <<>> =>
                /\ ~MapHas(ret.before.instances, ret.key)
                /\ ret.invoked = <<FactoryBefore>>
          /\ nextRef # ret.before.nextRef => ret.invoked # <<>>

\* has(k) answered true for a key registered but never resolved: nothing is
\* cached for it and no reference has been allocated.
C22_Witness ==
    /\ ret.op = "has"
    /\ ret.value = Bool(TRUE)
    /\ MapHas(factories, ret.key)
    /\ MapGet(factories, ret.key) \in FreshFactories
    /\ ~MapHas(instances, ret.key)
    /\ nextRef = 1

(***************************************************************************)
(* Further claims about the services namespace, checked under SvcSpec      *)
(***************************************************************************)
\* What a read of services.email made in the current state would produce.
EmailReadNow ==
    servicesProxyGet(factories, instances, nextRef, registered, config, EmailProp)

\* C23 (as stated): whenever registerServices() has returned, the registry
\* has a factory for 'email' and a following services.email read does not
\* fail as unregistered.
C23_EmailRegisteredAfterRegisterServices ==
    sret.op = "registerServices" =>
        /\ has(factories, instances, "email")
        /\ EmailReadNow.value # NotRegisteredError("email")

\* C23 (amended): a registerServices() call that finds the 'registered' flag
\* clear leaves the real email factory registered, and a following
\* services.email read returns a service or raises the constructor's error;
\* a call that finds the flag set changes nothing, so when no email factory
\* is registered (configureServices with an empty override object on a new
\* namespace, or getRegistry().clear() after registration) has('email')
\* stays false and reads of services.email throw the not-registered error.
C23_EmailRegisteredWhenFlagWasClear ==
    /\ (sret.op = "registerServices" /\ ~sret.before.registered) =>
          /\ has(factories, instances, "email")
          /\ MapGet(factories, "email") = EmailFactory
          /\ EmailReadNow.value # NotRegisteredError("email")
          /\ EmailReadNow.threw => EmailReadNow.value = ProviderError
    /\ (sret.op = "registerServices" /\ sret.before.registered) =>
          /\ factories = sret.before.factories
          /\ has(factories, instances, "email") =
                has(sret.before.factories, sret.before.instances, "email")
    /\ (registered /\ ~has(factories, instances, "email")) =>
          /\ EmailReadNow.threw
          /\ EmailReadNow.value = NotRegisteredError("email")
          /\ EmailReadNow.invoked = <<>>

\* registerServices() returned on a namespace that configureServices({})
\* had marked registered: no email factory, and the read would throw.
C23_Witness ==
    /\ sret.op = "registerServices"
    /\ sret.before.registered
    /\ sret.log.by = "configureServices"
    /\ sret.log.override = NoValue
    /\ ~has(factories, instances, "email")
    /\ EmailReadNow.threw

(***************************************************************************)
(* The services namespace together with direct use of the registry that    *)
(* getRegistry() hands out: getRegistry().register(k, f) beside the steps   *)
(* of SvcNext.  Reads of a key go through the namespace proxy.             *)
(***************************************************************************)
\* Factories a caller registers directly: one building a new object on each
\* call, one returning a fixed object.
PlainFactories == {Fn("fA"), Fn("fD1")}

\* getRegistry().register(k, f)
SvcRegister(k, f) ==
    LET r == register(factories, instances, k, f) IN
    /\ factories' = r.factories
    /\ instances' = r.instances
    /\ sret' = SvcReturned("register", PStr(k), FALSE, Undefined, <<>>)
    /\ slog' = IF k = "email"
               THEN [NoHistory EXCEPT !.by = "register",
                                      !.dropped = CachedEmail(instances)]
               ELSE slog
    /\ UNCHANGED <<nextRef, registered, config>>
    /\ UNCHANGED <<seqVars, raceVars, healthVars, hist, reply, boot>>

PartNext ==
    \/ SvcNext
    \/ \E k \in Keys, f \in PlainFactories : SvcRegister(k, f)

PartSpec == RegInit /\ [][PartNext]_vars

\* The keys the configureServices call just taken named.
NamedByConfigure == IF slog.override = NoValue THEN {} ELSE {"email"}

\* Key k has the factory and the cached instance it had before the step just
\* taken, and a get of k made now returns that instance.
Untouched(k) ==
    /\ MapHas(factories, k) = MapHas(sret.before.factories, k)
    /\ MapGet(factories, k) = MapGet(sret.before.factories, k)
    /\ MapHas(instances, k) = MapHas(sret.before.instances, k)
    /\ MapHas(instances, k) =>
          LET g == get(factories, instances, nextRef, k, config) IN
          /\ MapGet(instances, k) = MapGet(sret.before.instances, k)
          /\ ~g.threw
          /\ g.value = MapGet(sret.before.instances, k)
          /\ g.invoked = <<>>

\* C24: configureServices(partial) and register(k, f) change only the keys
\* they name: every other key keeps its registered factory and its cached
\* instance, and a later get of it returns the same reference as before.
C24_OnlyNamedKeysChange ==
    /\ sret.op = "configureServices" =>
          \A k \in Keys \ NamedByConfigure : Untouched(k)
    /\ sret.op = "register" =>
          \A k \in Keys \ {sret.prop.name} : Untouched(k)

\* configureServices({email: d}) dropped a cached email service and left the
\* cached instance of the other key in place.
C24_Witness ==
    /\ sret.op = "configureServices"
    /\ slog.override # NoValue
    /\ MapHas(sret.before.instances, "email")
    /\ ~MapHas(instances, "email")
    /\ MapHas(instances, "foo")
    /\ MapGet(instances, "foo") = MapGet(sret.before.instances, "foo")
    /\ MapGet(instances, "foo").id > 0

\* The read of services.email just taken follows, with the namespace
\* registered throughout, a read of services.email that threw.
AfterFailedRead ==
    /\ EmailRead
    /\ sret.before.registered
    /\ sret.log.by = "none"
    /\ sret.log.held = NoValue

\* C25: when the factory for a key throws during get (the email factory
\* under the resend provider without an API key), the error reaches the
\* caller, nothing is cached for the key, the factory stays registered, and
\* the next get of the key invokes the factory again.
C25_ThrowingFactoryNotCached ==
    /\ (EmailRead /\ sret.threw /\ sret.invoked # <<>>) =>
          /\ sret.invoked = <<EmailFactory>>
          /\ sret.value = ProviderError
          /\ sret.before.config = ResendNoKeyConfig
          /\ ~MapHas(instances, "email")
          /\ nextRef = sret.before.nextRef
          /\ MapGet(factories, "email") = EmailFactory
          /\ EmailReadNow.invoked = <<EmailFactory>>
    /\ (AfterFailedRead /\ MapHas(sret.before.factories, "email")) =>
          /\ sret.invoked = <<MapGet(sret.before.factories, "email")>>
          /\ ~sret.threw => MapGet(instances, "email") = sret.value

\* After a read that threw, and a change of configuration, the next read
\* invoked the email factory again and returned a service.
C25_Witness ==
    /\ AfterFailedRead
    /\ sret.invoked = <<EmailFactory>>
    /\ ~sret.threw
    /\ sret.value.t = "object"
    /\ sret.value.id = 1
    /\ sret.before.instances = EmptyMap

\* The elements of a sequence, as a set.
Range(s) == {s[i] : i \in 1..Len(s)}

\* C26: under RegSpec (register/get/has/getRegistered/reset/clear), every
\* key with a cached instance also has a registered factory, and
\* getRegistered() lists, once each, exactly the keys for which has() is
\* true.
C26_InstancesWithinFactories ==
    /\ KeySet(instances) \subseteq KeySet(factories)
    /\ \A k \in Keys :
          has(factories, instances, k) <=> k \in Range(getRegistered(factories))
    /\ Len(getRegistered(factories)) = Cardinality(Range(getRegistered(factories)))
    /\ Range(getRegistered(factories)) \subseteq Keys
    /\ ret.op = "getRegistered" =>
          /\ ret.value = Arr(getRegistered(ret.before.factories))
          /\ factories = ret.before.factories

\* getRegistered() listed both keys while only one of them holds an
\* instance.
C26_Witness ==
    /\ ret.op = "getRegistered"
    /\ ret.value = Arr(<<"foo", "email">>)
    /\ KeySet(instances) = {"email"}
    /\ has(factories, instances, "foo")

(***************************************************************************)
(* Further claims about the readers of the health state, under ServeSpec   *)
(***************************************************************************)
\* C27: until a probe of a dependency has completed, its check is recorded
\* 'unhealthy' with message 'Not checked' and no timestamp, and its
\* availability query answers false; until an auth probe has completed,
\* getHealth() reports the aggregate 'unhealthy' and GET /health answers
\* 503, also when the database probe has already succeeded.
C27_UncheckedIsUnhealthy ==
    /\ ~DbProbed =>
          /\ dbStatus = "unhealthy"
          /\ dbMessage = NotCheckedMessage
          /\ dbConnectedAt = Undefined
          /\ ~isDatabaseAvailable
    /\ ~AuthProbed =>
          /\ authStatus = "unhealthy"
          /\ authMessage = NotCheckedMessage
          /\ authValidatedAt = Undefined
          /\ ~isAuthAvailable
          /\ getHealth.status = "unhealthy"
          /\ healthHandler.statusCode = 503
          /\ reply.op = "getHealth" => reply.value.status = "unhealthy"
          /\ reply.op = "GET /health" =>
                /\ reply.value.statusCode = 503
                /\ reply.value.body.checks.auth.message = NotCheckedMessage

\* getHealth() was called after the database probe succeeded and while the
\* first auth probe was still awaited.
C27_Witness ==
    /\ reply.op = "getHealth"
    /\ reply.value.status = "unhealthy"
    /\ reply.value.checks.database.status = "healthy"
    /\ ~AuthProbed
    /\ \E r \in Runs : pc[r] = "authAwait"

\* A dependency's record as getHealth() reports it is coherent.
Coherent(check, message, stamp) ==
    check.status = "healthy" =>
        /\ check.message = message
        /\ stamp # Undefined
        /\ stamp.t = "string"

\* C28: while several runStartupChecks() invocations and getHealth() reads
\* interleave at the probes' await points, in every state and in every
\* getHealth() result a database status 'healthy' comes with message
\* 'Connected' and a connectedAt timestamp, and an auth status 'healthy'
\* with message 'Configuration valid' and a validatedAt timestamp.
C28_RecordsStayCoherent ==
    /\ dbStatus = "healthy" =>
          /\ dbMessage = <<"Connected">>
          /\ dbConnectedAt # Undefined
    /\ authStatus = "healthy" =>
          /\ authMessage = <<"Configuration valid">>
          /\ authValidatedAt # Undefined
    /\ reply.op = "getHealth" =>
          /\ Coherent(reply.value.checks.database, <<"Connected">>,
                      reply.value.checks.database.connectedAt)
          /\ Coherent(reply.value.checks.auth, <<"Configuration valid">>,
                      reply.value.checks.auth.validatedAt)

\* getHealth() read both checks healthy between the two probes of a second
\* invocation: the first invocation's database probe had failed and its
\* auth probe succeeded, the second invocation's database probe succeeded.
C28_Witness ==
    /\ reply.op = "getHealth"
    /\ reply.value.checks.database.status = "healthy"
    /\ reply.value.checks.auth.status = "healthy"
    /\ lastDbWriter = 2
    /\ pc[1] = "authDone"
    /\ pc[2] = "authAwait"
    /\ store[1].status = "unhealthy"

\* The read of services.email just taken is the first one after a
\* resetServices() that found an override registered for 'email'.
AfterOverrideReset ==
    /\ EmailRead
    /\ sret.log.by = "resetServices"
    /\ MapHas(sret.before.factories, "email")
    /\ MapGet(sret.before.factories, "email").name = "override"

\* C29: overrides do not survive resetServices(). After
\* configureServices({email: d}) and resetServices(), the override factory
\* is still registered but the flag is clear, so the next services.email
\* read re-runs registerServices(), which replaces the override by the real
\* factory, and the read returns a newly built real email service, not d.
C29_OverrideLostOnReset ==
    /\ (sret.op = "resetServices"
          /\ MapHas(sret.before.factories, "email")
          /\ MapGet(sret.before.factories, "email").name = "override") =>
          /\ ~registered
          /\ MapGet(factories, "email") = MapGet(sret.before.factories, "email")
          /\ EmailReadNow.invoked = <<EmailFactory>>
    /\ AfterOverrideReset =>
          /\ ~sret.before.registered
          /\ registered
          /\ MapGet(factories, "email") = EmailFactory
          /\ sret.invoked = <<EmailFactory>>
          /\ BuiltFrom(sret.before.config, sret.before.nextRef)
          /\ ~sret.threw =>
                /\ sret.value # MapGet(sret.before.factories, "email").value
                /\ sret.value \notin Doubles
                /\ MapGet(instances, "email") = sret.value

\* The double had been read through the namespace before resetServices();
\* the read after it returned a real service.
C29_Witness ==
    /\ AfterOverrideReset
    /\ MapGet(sret.before.factories, "email") = Override(OtherDouble)
    /\ sret.log.dropped = OtherDouble
    /\ ~sret.threw
    /\ sret.value.id > 0
    /\ sret.value.provider[1] = "console"

(***************************************************************************)
(* Further claims about the probes, checked under HealthSpec               *)
(***************************************************************************)
\* The probe that settled last threw a value that is not an Error.
ThrewNonError(probe) ==
    /\ last.probe = probe
    /\ last.outcome.threw
    /\ ~IsError(last.outcome.value)

\* C30: the fatal path of the credential probe is taken only when the thrown
\* value is an Error whose message contains 'Failed to decrypt private key'.
\* When a probe throws a value that is not an Error, whatever text it
\* carries, the auth check is recorded 'unhealthy' with message
\* 'Configuration error: Unknown error' (the database check with
\* 'Connection failed') and runStartupChecks() does not raise.
C30_FatalOnlyForErrorWithSignature ==
    /\ \A r \in Runs : (pc[r] = "raised" /\ last.run = r) =>
          /\ last.probe = "auth"
          /\ last.outcome.threw
          /\ IsError(last.outcome.value)
          /\ Includes(last.outcome.value.message, FatalSignature)
          /\ authStatus = "unhealthy"
          /\ authMessage = SecretMismatchMessage
    /\ ThrewNonError("auth") =>
          /\ authStatus = "unhealthy"
          /\ authMessage = <<"Configuration error: ", "Unknown error">>
          /\ authValidatedAt = Undefined
          /\ pc[last.run] \in {"authDone", "done"}
    /\ ThrewNonError("database") =>
          /\ dbStatus = "unhealthy"
          /\ dbMessage = <<"Connection failed">>
          /\ dbConnectedAt = Undefined
          /\ pc[last.run] \in {"dbDone", "authAwait"}

\* The credential probe threw a string carrying the very text of the fatal
\* signature and the invocation returned normally.
C30_Witness ==
    /\ ThrewNonError("auth")
    /\ last.outcome.value = Str(FatalSignature)
    /\ pc[last.run] = "done"
    /\ authMessage = <<"Configuration error: ", "Unknown error">>

====
